---- MODULE Spec2Model ----
(***************************************************************************)
(* Model of scripts/validate_lite_configs.py: one run of the lite-config   *)
(* validator over a file system holding (or missing) the three documents.  *)
(*                                                                         *)
(* Strings are sequences of one-character strings.  A YAML scalar is a     *)
(* record [t, s, n]: t = "str" with text s, or t = "int" with value n.     *)
(***************************************************************************)
EXTENDS Integers, Sequences, FiniteSets, TLC

(***************************************************************************)
(* Bounds of the explored inputs.                                          *)
(***************************************************************************)
MaxRefLen == 3
MaxImportLen == 3
MaxStartKeys == 3
MaxAssignments == 3
MaxTasks == 2
MaxImports == 2
MaxInt == 1

RefAlphabet == {"-", "a"}
ImportAlphabet == {"a", ".", "/"}

(***************************************************************************)
(* Character order used by Python's string comparison (code points).       *)
(***************************************************************************)
Ord(c) ==
  CASE c = " " -> 32 [] c = "," -> 44 [] c = "-" -> 45 [] c = "." -> 46
    [] c = "/" -> 47 [] c = "0" -> 48 [] c = "1" -> 49 [] c = "2" -> 50
    [] c = "3" -> 51 [] c = "4" -> 52 [] c = "5" -> 53 [] c = "6" -> 54
    [] c = "7" -> 55 [] c = "8" -> 56 [] c = "9" -> 57 [] c = "a" -> 97

Digits == <<"0", "1", "2", "3", "4", "5", "6", "7", "8", "9">>

StrVal(s) == [t |-> "str", s |-> s, n |-> 0]
IntVal(n) == [t |-> "int", s |-> <<>>, n |-> n]

(* str(int) for a non-negative int *)
RECURSIVE IntToStr(_)
IntToStr(n) ==
  IF n < 10 THEN <<Digits[n + 1]>>
  ELSE IntToStr(n \div 10) \o <<Digits[(n % 10) + 1]>>

(* str(x) of a scalar *)
Str(v) == IF v.t = "str" THEN v.s ELSE IntToStr(v.n)

(* s.split(sep): the list of the parts of s between occurrences of sep *)
RECURSIVE Split(_, _)
Split(s, sep) ==
  IF \A k \in 1..Len(s) : s[k] # sep THEN <<s>>
  ELSE LET j == CHOOSE k \in 1..Len(s) :
                  s[k] = sep /\ \A m \in 1..(k - 1) : s[m] # sep
       IN  <<SubSeq(s, 1, j - 1)>> \o Split(SubSeq(s, j + 1, Len(s)), sep)

(* a plausible slip: rsplit("-", 1)[0], the part before the LAST hyphen *)
BaseLastHyphen(v) ==
  LET s == Str(v)
      H == {k \in 1..Len(s) : s[k] = "-"}
  IN  IF H = {} THEN s
      ELSE SubSeq(s, 1, (CHOOSE k \in H : \A m \in H : m <= k) - 1)

(* str(k).split("-")[0] *)
Base(v) == Split(Str(v), "-")[1]

(* pathlib.Path(rel).name: the last path component; empty and "."          *)
(* components are dropped when the path is parsed                          *)
PathName(rel) ==
  LET parts == SelectSeq(Split(rel, "/"), LAMBDA c : c # <<>> /\ c # <<".">>)
  IN  IF parts = <<>> THEN <<>> ELSE parts[Len(parts)]

(* pathlib.Path(rel).stem: the name without its last suffix; a dot that    *)
(* starts or ends the name does not begin a suffix                         *)
Stem(rel) ==
  LET name == PathName(rel)
      D == {k \in 1..Len(name) : name[k] = "."}
      dot == IF D = {} THEN 0 ELSE CHOOSE k \in D : \A m \in D : m <= k
  IN  IF 1 < dot /\ dot < Len(name) THEN SubSeq(name, 1, dot - 1) ELSE name

(* Python's < on two strings: lexicographic by code point *)
RECURSIVE StrLess(_, _)
StrLess(s, u) ==
  IF u = <<>> THEN FALSE
  ELSE IF s = <<>> THEN TRUE
  ELSE IF s[1] # u[1] THEN Ord(s[1]) < Ord(u[1])
  ELSE StrLess(Tail(s), Tail(u))

(* x < y for two scalars of the same type *)
Less(x, y) == IF x.t = "str" THEN StrLess(x.s, y.s) ELSE x.n < y.n

(* sorted() cannot order a str against an int: it raises TypeError *)
Unorderable(l) == \E a \in 1..Len(l), b \in 1..Len(l) : l[a].t # l[b].t

RECURSIVE Insert(_, _)
Insert(x, l) ==
  IF l = <<>> THEN <<x>>
  ELSE IF Less(x, l[1]) THEN <<x>> \o l
  ELSE <<l[1]>> \o Insert(x, Tail(l))

(* a plausible slip: the list comprehension without sorted() *)
Unsorted(l) == l

(* sorted(l), for a list whose elements are mutually orderable *)
RECURSIVE Sorted(_)
Sorted(l) == IF l = <<>> THEN <<>> ELSE Insert(l[Len(l)], Sorted(SubSeq(l, 1, Len(l) - 1)))

(* ", ".join(map(str, l)) *)
RECURSIVE Join(_)
Join(l) ==
  IF l = <<>> THEN <<>>
  ELSE IF Len(l) = 1 THEN Str(l[1])
  ELSE Str(l[1]) \o <<",", " ">> \o Join(Tail(l))

(***************************************************************************)
(* The three required files, in the order main() checks and loads them.    *)
(***************************************************************************)
start_lite == "configs/start_task_lite.yaml"
assign_lite == "configs/assignments/lite.yaml"
task_assembly == "configs/tasks/task_assembly.yaml"

(* a plausible slip: the tuple of line 43 written in the order of the      *)
(* three assignments' use further down (registry first)                    *)
PathsRegistryFirst == <<task_assembly, start_lite, assign_lite>>

(* the tuple the existence loop runs over *)
Paths == <<start_lite, assign_lite, task_assembly>>

(***************************************************************************)
(* Input documents.  kind says what reading the file gives: "missing" (no  *)
(* such file), "raises" (open or yaml.safe_load raises), "null" (safe_load *)
(* returns None), "nonmap" (a list or scalar) or "map".  For a map, field  *)
(* describes the one field main() reads: "absent", "other" (a value of the *)
(* wrong type, null included) or the expected container with its items.    *)
(***************************************************************************)
SeqsUpTo(S, n) == UNION {[1..k -> S] : k \in 0..n}
DistinctSeqs(S, n) ==
  {q \in SeqsUpTo(S, n) : \A a \in 1..Len(q), b \in 1..Len(q) : a # b => q[a] # q[b]}

Doc(kind, field, items) == [kind |-> kind, field |-> field, items |-> items]
NoMapDocs == {Doc(k, "absent", <<>>) : k \in {"missing", "raises", "null", "nonmap"}}
BadFieldDocs == {Doc("map", f, <<>>) : f \in {"absent", "other"}}

(* start_task_lite.yaml: start is a mapping; only its keys are read *)
StartDocs(keys, n) ==
  NoMapDocs \cup BadFieldDocs \cup {Doc("map", "dict", q) : q \in DistinctSeqs(keys, n)}

(* an element of assignments: a non-mapping, or a mapping whose task is    *)
(* absent, a string s, a list refs, or something else ("other")            *)
Assignment(isdict, task, s, refs) ==
  [isdict |-> isdict, task |-> task, s |-> s, refs |-> refs]
Assignments(refs, nt) ==
  {Assignment(FALSE, "absent", <<>>, <<>>)}
  \cup {Assignment(TRUE, t, <<>>, <<>>) : t \in {"absent", "other"}}
  \cup {Assignment(TRUE, "str", r.s, <<>>) : r \in {x \in refs : x.t = "str"}}
  \cup {Assignment(TRUE, "list", <<>>, l) : l \in SeqsUpTo(refs, nt)}

AssignDocs(refs, na, nt) ==
  NoMapDocs \cup BadFieldDocs
  \cup {Doc("map", "list", q) : q \in SeqsUpTo(Assignments(refs, nt), na)}

AssemblyDocs(entries, n) ==
  NoMapDocs \cup BadFieldDocs \cup {Doc("map", "list", q) : q \in SeqsUpTo(entries, n)}

Strs(A, n) == {StrVal(s) : s \in SeqsUpTo(A, n)}
Ints == {IntVal(n) : n \in 1..MaxInt}
RefValues == Strs(RefAlphabet, MaxRefLen) \cup Ints
ImportValues == Strs(ImportAlphabet, MaxImportLen) \cup Ints

(* a few references: "a-" has base "a"; "-a" has the empty base *)
FewRefs == {StrVal(<<"a", "-">>), StrVal(<<"-", "a">>), StrVal(<<"a", "a">>)}
(* a few import entries, of stems "a" and "aa" *)
FewImports == {StrVal(<<"a", ".", "a">>), StrVal(<<"a", "a">>)}
FewStart == StartDocs(FewRefs, 1)
FewAssign == AssignDocs(FewRefs, 1, 1)
FewAssembly == AssemblyDocs(FewImports \cup Ints, 1)
(* one valid document of each kind: start {a-a: ..}, assignments          *)
(* [{task: a-a}], import [a.a]                                            *)
OneStart == {Doc("map", "dict", <<StrVal(<<"a", "-", "a">>)>>)}
OneAssign == {Doc("map", "list", <<Assignment(TRUE, "str", <<"a", "-", "a">>, <<>>)>>)}
OneAssembly == {Doc("map", "list", <<StrVal(<<"a", ".", "a">>)>>)}

Slice(s, a, r) == [start |-> s, assign |-> a, assembly |-> r]

(* every combination of the small documents *)
FewSlice == Slice(FewStart, FewAssign, FewAssembly)

(* the explored inputs: the combinations of small documents, and slices   *)
(* that vary one document at large (many keys, long keys, many            *)
(* assignments, many tasks, long references, many imports, long imports)  *)
(* beside small or valid other documents                                  *)
Slices ==
  <<FewSlice,
    Slice(StartDocs(FewRefs \cup Ints, MaxStartKeys), OneAssign, FewAssembly),
    Slice(StartDocs(RefValues, 2), OneAssign, FewAssembly),
    Slice(OneStart, AssignDocs(FewRefs, MaxAssignments, 1), OneAssembly),
    Slice(OneStart, AssignDocs(FewRefs, 2, MaxTasks), OneAssembly),
    Slice(OneStart, AssignDocs(RefValues, 1, 2), OneAssembly),
    Slice(FewStart, OneAssign, AssemblyDocs(FewImports \cup Ints, MaxImports)),
    Slice(FewStart, OneAssign, AssemblyDocs(ImportValues, 1))>>

(***************************************************************************)
(* State of one run.                                                       *)
(***************************************************************************)
VARIABLES files, pc, i, opened, start_cfg, assign_cfg, assembly_cfg, imports,
          task_names, unknown_in_start, unknown_in_assign, exc, stdout,
          stderr, exit_code

vars == <<files, pc, i, opened, start_cfg, assign_cfg, assembly_cfg, imports,
          task_names, unknown_in_start, unknown_in_assign, exc, stdout,
          stderr, exit_code>>

Msg(text, detail) == [text |-> text, detail |-> detail]
NoCfg == [field |-> "unset", items |-> <<>>]

(* the state main() starts in, over the inputs of the slices sl *)
InitOn(sl) ==
  /\ \E k \in 1..Len(sl) :
       \E s \in sl[k].start, a \in sl[k].assign, r \in sl[k].assembly :
         files = [p \in {start_lite, assign_lite, task_assembly} |->
                    IF p = start_lite THEN s ELSE IF p = assign_lite THEN a ELSE r]
  /\ pc = "exists"
  /\ i = 1
  /\ opened = {}
  /\ start_cfg = NoCfg
  /\ assign_cfg = NoCfg
  /\ assembly_cfg = NoCfg
  /\ imports = <<>>
  /\ task_names = {}
  /\ unknown_in_start = <<>>
  /\ unknown_in_assign = <<>>
  /\ exc = <<>>
  /\ stdout = <<>>
  /\ stderr = <<>>
  /\ exit_code = -1

Init == InitOn(Slices)

(* the combinations of small documents only *)
InitFew == InitOn(<<FewSlice>>)

(* raise RuntimeError(msg): control leaves main() for the except clause *)
Raise(msg) == pc' = "except" /\ exc' = <<msg>>

(* for p in (start_lite, assign_lite, task_assembly): if not p.exists() *)
CheckExists ==
  /\ pc = "exists"
  /\ IF files[Paths[i]].kind = "missing"
       THEN Raise(Msg("Missing required file: ", <<Paths[i]>>)) /\ i' = i
       ELSE /\ exc' = exc
            /\ IF i < Len(Paths) THEN i' = i + 1 /\ pc' = pc
                                 ELSE i' = i /\ pc' = "load_start"
  /\ UNCHANGED <<files, opened, start_cfg, assign_cfg, assembly_cfg, imports,
                 task_names, unknown_in_start, unknown_in_assign, stdout,
                 stderr, exit_code>>

(* load_yaml(path): the mapping it returns, or the error it raises *)
load_yaml(path) ==
  LET d == files[path]
  IN  IF d.kind \in {"missing", "raises"}
        THEN [ok |-> FALSE, data |-> NoCfg,
              msg |-> Msg("Failed to parse YAML: ", <<path>>)]
      ELSE IF d.kind = "null"
        THEN [ok |-> TRUE, data |-> [field |-> "absent", items |-> <<>>],
              msg |-> Msg("", <<>>)]
      ELSE IF d.kind # "map"
        THEN [ok |-> FALSE, data |-> NoCfg,
              msg |-> Msg("Expected mapping at top-level in ", <<path>>)]
      ELSE [ok |-> TRUE, data |-> [field |-> d.field, items |-> d.items],
            msg |-> Msg("", <<>>)]

(* start_cfg = load_yaml(start_lite) *)
LoadStart ==
  /\ pc = "load_start"
  /\ opened' = opened \cup {start_lite}
  /\ LET r == load_yaml(start_lite)
     IN  IF r.ok THEN start_cfg' = r.data /\ pc' = "load_assign" /\ exc' = exc
         ELSE Raise(r.msg) /\ start_cfg' = start_cfg
  /\ UNCHANGED <<files, i, assign_cfg, assembly_cfg, imports, task_names,
                 unknown_in_start, unknown_in_assign, stdout, stderr, exit_code>>

(* assign_cfg = load_yaml(assign_lite) *)
LoadAssign ==
  /\ pc = "load_assign"
  /\ opened' = opened \cup {assign_lite}
  /\ LET r == load_yaml(assign_lite)
     IN  IF r.ok THEN assign_cfg' = r.data /\ pc' = "load_assembly" /\ exc' = exc
         ELSE Raise(r.msg) /\ assign_cfg' = assign_cfg
  /\ UNCHANGED <<files, i, start_cfg, assembly_cfg, imports, task_names,
                 unknown_in_start, unknown_in_assign, stdout, stderr, exit_code>>

(* assembly_cfg = load_yaml(task_assembly) *)
LoadAssembly ==
  /\ pc = "load_assembly"
  /\ opened' = opened \cup {task_assembly}
  /\ LET r == load_yaml(task_assembly)
     IN  IF r.ok THEN assembly_cfg' = r.data /\ pc' = "imports" /\ exc' = exc
         ELSE Raise(r.msg) /\ assembly_cfg' = assembly_cfg
  /\ UNCHANGED <<files, i, start_cfg, assign_cfg, imports, task_names,
                 unknown_in_start, unknown_in_assign, stdout, stderr, exit_code>>

(* not isinstance(imports, list) or not all(isinstance(x, str) ...), for   *)
(* imports = assembly_cfg.get("import", []): an absent field reads as []   *)
ImportsRejected(cfg) ==
  LET isList == cfg.field \in {"list", "absent"}
      value == IF cfg.field = "list" THEN cfg.items ELSE <<>>
  IN  ~isList \/ \E k \in 1..Len(value) : value[k].t # "str"

(* imports = assembly_cfg.get("import", []) and its type check *)
CheckImports ==
  /\ pc = "imports"
  /\ IF ImportsRejected(assembly_cfg)
       THEN /\ Raise(Msg("configs/tasks/task_assembly.yaml must have a list field: import", <<>>))
            /\ imports' = imports
       ELSE /\ imports' = IF assembly_cfg.field = "list" THEN assembly_cfg.items ELSE <<>>
            /\ pc' = "task_names"
            /\ exc' = exc
  /\ UNCHANGED <<files, i, opened, start_cfg, assign_cfg, assembly_cfg,
                 task_names, unknown_in_start, unknown_in_assign, stdout,
                 stderr, exit_code>>

(* for rel in imports: task_names.add(pathlib.Path(rel).stem) *)
CollectTaskNames ==
  /\ pc = "task_names"
  /\ task_names' = {Stem(imports[k].s) : k \in 1..Len(imports)}
  /\ pc' = "start"
  /\ UNCHANGED <<files, i, opened, start_cfg, assign_cfg, assembly_cfg, imports,
                 unknown_in_start, unknown_in_assign, exc, stdout, stderr,
                 exit_code>>

(* a plausible slip: the membership test on the whole reference *)
IsUnknownWhole(v, names) == Str(v) \notin names

(* str(k).split("-")[0] not in task_names *)
IsUnknown(v, names) == Base(v) \notin names

(* a plausible slip: the base is appended instead of the reference *)
UnknownBasesIn(tasks, names) ==
  LET u == SelectSeq(tasks, LAMBDA t : IsUnknown(t, names))
  IN  [k \in 1..Len(u) |-> StrVal(Base(u[k]))]

(* for t in tasks: if base not in task_names: unknown_in_assign.append(t) *)
UnknownIn(tasks, names) == SelectSeq(tasks, LAMBDA t : IsUnknown(t, names))

(* [k for k in start.keys() if str(k).split("-")[0] not in task_names] *)
UnknownKeys(keys, names) == SelectSeq(keys, LAMBDA k : IsUnknown(k, names))

(* the start check: start_cfg.get("start", {}) must be a non-empty dict,   *)
(* and the sorted unknown keys must be empty                               *)
CheckStart ==
  /\ pc = "start"
  /\ LET unknown == UnknownKeys(start_cfg.items, task_names)
         sorted == Sorted(unknown)
     IN  IF start_cfg.field # "dict" \/ start_cfg.items = <<>>
           THEN /\ Raise(Msg("configs/start_task_lite.yaml must have non-empty mapping field: start", <<>>))
                /\ unknown_in_start' = unknown_in_start
         ELSE IF Unorderable(unknown)
           THEN /\ Raise(Msg("TypeError: '<' not supported between instances", <<>>))
                /\ unknown_in_start' = unknown_in_start
         ELSE /\ unknown_in_start' = sorted
              /\ IF sorted # <<>>
                   THEN Raise(Msg("start_task_lite.yaml references tasks not present in task_assembly imports: ",
                                  Join(sorted)))
                   ELSE pc' = "assignments" /\ exc' = exc
  /\ UNCHANGED <<files, i, opened, start_cfg, assign_cfg, assembly_cfg, imports,
                 task_names, unknown_in_assign, stdout, stderr, exit_code>>

(* assignments = assign_cfg.get("assignments") must be a non-empty list *)
CheckAssignments ==
  /\ pc = "assignments"
  /\ IF assign_cfg.field # "list" \/ assign_cfg.items = <<>>
       THEN /\ Raise(Msg("configs/assignments/lite.yaml must have a non-empty list field: assignments", <<>>))
            /\ i' = i
       ELSE pc' = "assign_loop" /\ i' = 1 /\ exc' = exc
  /\ unknown_in_assign' = <<>>
  /\ UNCHANGED <<files, opened, start_cfg, assign_cfg, assembly_cfg, imports,
                 task_names, unknown_in_start, stdout, stderr, exit_code>>

(* a plausible slip: a string task is not wrapped, so it is iterated       *)
(* character by character                                                  *)
TasksOfUnwrapped(a) ==
  IF a.task = "str" THEN [k \in 1..Len(a.s) |-> StrVal(<<a.s[k]>>)]
  ELSE IF a.task = "list" THEN a.refs ELSE <<>>

(* tasks = a.get("task", []); if isinstance(tasks, str): tasks = [tasks] *)
TasksOf(a) ==
  IF a.task = "str" THEN <<StrVal(a.s)>>
  ELSE IF a.task = "list" THEN a.refs
  ELSE <<>>

(* not isinstance(tasks, list), after the default [] and the wrapping *)
TaskRejected(a) == a.task \notin {"str", "list", "absent"}

(* one iteration of: for a in assignments *)
AssignStep ==
  /\ pc = "assign_loop"
  /\ i <= Len(assign_cfg.items)
  /\ LET a == assign_cfg.items[i]
     IN  IF ~a.isdict
           THEN /\ Raise(Msg("Each assignment must be a mapping", <<>>))
                /\ UNCHANGED <<i, unknown_in_assign>>
         ELSE IF TaskRejected(a)
           THEN /\ Raise(Msg("assignment.task must be a string or list", <<>>))
                /\ UNCHANGED <<i, unknown_in_assign>>
         ELSE /\ unknown_in_assign' =
                   unknown_in_assign \o UnknownIn(TasksOf(a), task_names)
              /\ i' = i + 1
              /\ UNCHANGED <<pc, exc>>
  /\ UNCHANGED <<files, opened, start_cfg, assign_cfg, assembly_cfg, imports,
                 task_names, unknown_in_start, stdout, stderr, exit_code>>

(* after the loop: if unknown_in_assign: raise *)
AssignReport ==
  /\ pc = "assign_loop"
  /\ i > Len(assign_cfg.items)
  /\ IF unknown_in_assign # <<>>
       THEN Raise(Msg("assignments/lite.yaml references tasks not present in task_assembly imports: ",
                      Join(unknown_in_assign)))
       ELSE pc' = "print_ok" /\ exc' = exc
  /\ UNCHANGED <<files, i, opened, start_cfg, assign_cfg, assembly_cfg, imports,
                 task_names, unknown_in_start, unknown_in_assign, stdout,
                 stderr, exit_code>>

OkLine == "OK: lite configs look valid"

(* print("OK: ..."); return 0; raise SystemExit(0) *)
PrintOk ==
  /\ pc = "print_ok"
  /\ stdout' = Append(stdout, OkLine)
  /\ exit_code' = 0
  /\ pc' = "exited"
  /\ UNCHANGED <<files, i, opened, start_cfg, assign_cfg, assembly_cfg, imports,
                 task_names, unknown_in_start, unknown_in_assign, exc, stderr>>

(* a plausible slip: the print without file=sys.stderr *)
HandleExceptionToStdout ==
  /\ pc = "except"
  /\ stdout' = Append(stdout, [prefix |-> "ERROR: ", text |-> exc[1].text,
                               detail |-> exc[1].detail])
  /\ exit_code' = 1
  /\ pc' = "exited"
  /\ UNCHANGED <<files, i, opened, start_cfg, assign_cfg, assembly_cfg, imports,
                 task_names, unknown_in_start, unknown_in_assign, exc, stderr>>

(* except Exception as e: print(f"ERROR: {e}", file=sys.stderr); exit 1 *)
HandleException ==
  /\ pc = "except"
  /\ stderr' = Append(stderr, [prefix |-> "ERROR: ", text |-> exc[1].text,
                               detail |-> exc[1].detail])
  /\ exit_code' = 1
  /\ pc' = "exited"
  /\ UNCHANGED <<files, i, opened, start_cfg, assign_cfg, assembly_cfg, imports,
                 task_names, unknown_in_start, unknown_in_assign, exc, stdout>>

Next ==
  \/ CheckExists
  \/ LoadStart
  \/ LoadAssign
  \/ LoadAssembly
  \/ CheckImports
  \/ CollectTaskNames
  \/ CheckStart
  \/ CheckAssignments
  \/ AssignStep
  \/ AssignReport
  \/ PrintOk
  \/ HandleException

Spec == Init /\ [][Next]_vars

(* the run is sequential and never blocks: an enabled step is taken *)
FairSpec == InitFew /\ [][Next]_vars /\ WF_vars(Next)

(***************************************************************************)
(* Vocabulary of the properties, stated on the input documents.            *)
(***************************************************************************)
StartDoc == files[start_lite]
AssignDoc == files[assign_lite]
AssemblyDoc == files[task_assembly]
Exited == pc = "exited"

ErrLine(text, detail) == [prefix |-> "ERROR: ", text |-> text, detail |-> detail]
MissingText == "Missing required file: "
ImportText == "configs/tasks/task_assembly.yaml must have a list field: import"
StartSchemaText == "configs/start_task_lite.yaml must have non-empty mapping field: start"
StartUnknownText == "start_task_lite.yaml references tasks not present in task_assembly imports: "
SortErrorText == "TypeError: '<' not supported between instances"
AssignSchemaText == "configs/assignments/lite.yaml must have a non-empty list field: assignments"
NotMappingText == "Each assignment must be a mapping"
TaskTypeText == "assignment.task must be a string or list"
AssignUnknownText == "assignments/lite.yaml references tasks not present in task_assembly imports: "

(* the substring before the first hyphen, or the whole string *)
BaseIdentifier(s) ==
  LET H == {k \in 1..Len(s) : s[k] = "-"}
  IN  IF H = {} THEN s
      ELSE SubSeq(s, 1, (CHOOSE k \in H : \A m \in H : k <= m) - 1)

(* the file-name stems of the import entries *)
KnownTaskSet ==
  {Stem(AssemblyDoc.items[k].s) :
     k \in {m \in 1..Len(AssemblyDoc.items) : AssemblyDoc.items[m].t = "str"}}
Resolvable(v) == BaseIdentifier(Str(v)) \in KnownTaskSet

(* the task references of one assignment element, and of the first n *)
RefsOf(a) ==
  IF a.isdict /\ a.task = "str" THEN <<StrVal(a.s)>>
  ELSE IF a.isdict /\ a.task = "list" THEN a.refs ELSE <<>>
RECURSIVE RefsUpTo(_)
RefsUpTo(n) == IF n = 0 THEN <<>> ELSE RefsUpTo(n - 1) \o RefsOf(AssignDoc.items[n])
AllRefs == RefsUpTo(Len(AssignDoc.items))

AllMaps == \A p \in {start_lite, assign_lite, task_assembly} : files[p].kind = "map"
ImportIsStrList ==
  /\ AssemblyDoc.field = "list"
  /\ \A k \in 1..Len(AssemblyDoc.items) : AssemblyDoc.items[k].t = "str"
StartIsNonEmptyMap == StartDoc.field = "dict" /\ StartDoc.items # <<>>
AssignmentsWellTyped ==
  /\ AssignDoc.field = "list" /\ AssignDoc.items # <<>>
  /\ \A k \in 1..Len(AssignDoc.items) :
       AssignDoc.items[k].isdict /\ AssignDoc.items[k].task \in {"str", "list"}
AllResolve ==
  /\ \A k \in 1..Len(StartDoc.items) : Resolvable(StartDoc.items[k])
  /\ \A k \in 1..Len(AllRefs) : Resolvable(AllRefs[k])
WellFormed ==
  AllMaps /\ ImportIsStrList /\ StartIsNonEmptyMap /\ AssignmentsWellTyped /\ AllResolve
Success == Exited /\ exit_code = 0 /\ stdout = <<OkLine>> /\ stderr = <<>>

(* C1: on well-formed inputs whose references all resolve, the run raises  *)
(* nothing and ends with exit code 0 and exactly the OK line on stdout.    *)
C1_WellFormedSucceeds ==
  WellFormed => /\ exc = <<>> /\ pc # "except"
                /\ ~Exited => (exit_code = -1 /\ stdout = <<>> /\ stderr = <<>>)
                /\ Exited => Success

C1_Witness ==
  /\ WellFormed /\ Success
  /\ Len(StartDoc.items) >= 2
  /\ \E k \in 1..Len(StartDoc.items) : Str(StartDoc.items[k]) # Base(StartDoc.items[k])

(* C2: a run that ends with exit code 0 has every start key and every      *)
(* assignment task reference resolvable in the Known Task Set.             *)
C2_SuccessIsSound == exit_code = 0 => AllResolve

C2_Witness ==
  /\ exit_code = 0
  /\ Len(AllRefs) >= 3
  /\ \E k \in 1..Len(AssignDoc.items) : AssignDoc.items[k].task = "str"
  /\ \E k \in 1..Len(StartDoc.items) :
       Str(StartDoc.items[k]) # BaseIdentifier(Str(StartDoc.items[k]))

(* C3: with a required file missing the run opens no file and ends with    *)
(* exit code 1 naming the first missing path in the order start, assign,   *)
(* assembly, whatever the other files contain.                             *)
AnyMissing == \E p \in {start_lite, assign_lite, task_assembly} : files[p].kind = "missing"
FirstMissing ==
  IF StartDoc.kind = "missing" THEN start_lite
  ELSE IF AssignDoc.kind = "missing" THEN assign_lite ELSE task_assembly
C3_MissingFileFirst ==
  AnyMissing =>
    /\ opened = {}
    /\ start_cfg = NoCfg /\ assign_cfg = NoCfg /\ assembly_cfg = NoCfg
    /\ Exited => /\ exit_code = 1
                 /\ stdout = <<>>
                 /\ stderr = <<ErrLine(MissingText, <<FirstMissing>>)>>

C3_Witness ==
  /\ Exited /\ exit_code = 1
  /\ StartDoc.kind = "raises"
  /\ AssignDoc.kind = "missing"
  /\ AssemblyDoc.kind = "missing"

(* C4: every run ends, in one of two outcomes: exit 0 with one stdout line  *)
(* and an empty stderr, or exit 1 with one ERROR line on stderr and an      *)
(* empty stdout; every raised error ends in the second.                     *)
OutcomeOk == exit_code = 0 /\ Len(stdout) = 1 /\ stderr = <<>> /\ exc = <<>>
OutcomeError ==
  /\ exit_code = 1 /\ stdout = <<>> /\ Len(stderr) = 1 /\ exc # <<>>
  /\ stderr[1] = ErrLine(exc[1].text, exc[1].detail)
ErrorKinds == {MissingText, "Failed to parse YAML: ", "Expected mapping at top-level in ",
               ImportText, StartSchemaText, StartUnknownText, AssignSchemaText,
               NotMappingText, TaskTypeText, AssignUnknownText}
LoadsAsMap(d) == d.kind \in {"map", "null"}
AllLoad == LoadsAsMap(StartDoc) /\ LoadsAsMap(AssignDoc) /\ LoadsAsMap(AssemblyDoc)
UnresolvedKeys == SelectSeq(StartDoc.items, LAMBDA k : ~Resolvable(k))
StartHasUnresolved ==
  AllLoad /\ ImportIsStrList /\ StartDoc.kind = "map" /\ StartIsNonEmptyMap
  /\ UnresolvedKeys # <<>>
Ascending(l) == \A a \in 1..Len(l), b \in 1..Len(l) : a < b => Less(l[a], l[b])
SameElements(l, m) ==
  /\ Len(l) = Len(m)
  /\ {l[k] : k \in 1..Len(l)} = {m[k] : k \in 1..Len(m)}
OneType(l) == \A a \in 1..Len(l), b \in 1..Len(l) : l[a].t = l[b].t

(* C5 as stated: the unresolved start keys are listed in the insertion     *)
(* order of the start mapping.                                             *)
C5_InsertionOrder ==
  (StartHasUnresolved /\ Exited) =>
    /\ exit_code = 1
    /\ stderr = <<ErrLine(StartUnknownText, Join(UnresolvedKeys))>>

(* C5 amended: the run fails with exit code 1; unresolved keys of one type *)
(* are all listed, comma-joined, in ascending sorted order; unresolved     *)
(* keys that mix strings and numbers make the sort raise, and its error is *)
(* the one reported.                                                       *)
C5_SortedOrder ==
  (StartHasUnresolved /\ Exited) =>
    /\ exit_code = 1 /\ stdout = <<>>
    /\ IF OneType(UnresolvedKeys)
         THEN /\ SameElements(unknown_in_start, UnresolvedKeys)
              /\ Ascending(unknown_in_start)
              /\ stderr = <<ErrLine(StartUnknownText, Join(unknown_in_start))>>
         ELSE /\ unknown_in_start = <<>>
              /\ stderr = <<ErrLine(SortErrorText, <<>>)>>

C5_Witness ==
  /\ StartHasUnresolved /\ Exited
  /\ Len(UnresolvedKeys) >= 2
  /\ OneType(UnresolvedKeys)
  /\ unknown_in_start # UnresolvedKeys
  /\ Len(StartDoc.items) > Len(UnresolvedKeys)

(***************************************************************************)
(* The assignments check.                                                  *)
(***************************************************************************)
Unresolved(l) == SelectSeq(l, LAMBDA t : ~Resolvable(t))
PassedStart ==
  \/ pc \in {"assignments", "assign_loop", "print_ok"}
  \/ exit_code = 0
  \/ exc # <<>> /\ exc[1].text \in {AssignSchemaText, NotMappingText, TaskTypeText,
                                    AssignUnknownText}

(* C6: once the registry and start checks have passed on well-typed        *)
(* assignments, the loop collects the unresolved references of the         *)
(* elements seen so far, unchanged and in encounter order, and the error   *)
(* is raised after the last element with exactly that list.                *)
C6_AssignViolations ==
  (PassedStart /\ AssignmentsWellTyped) =>
    /\ pc = "assign_loop" => unknown_in_assign = Unresolved(RefsUpTo(i - 1))
    /\ exc # <<>> => /\ i = Len(AssignDoc.items) + 1
                     /\ exc[1] = Msg(AssignUnknownText, Join(Unresolved(AllRefs)))
    /\ Exited =>
         IF Unresolved(AllRefs) = <<>> THEN Success
         ELSE /\ exit_code = 1 /\ stdout = <<>>
              /\ stderr = <<ErrLine(AssignUnknownText, Join(Unresolved(AllRefs)))>>

C6_Witness ==
  /\ PassedStart /\ AssignmentsWellTyped /\ Exited /\ exit_code = 1
  /\ Len(AssignDoc.items) = 2
  /\ Len(AllRefs) > Len(Unresolved(AllRefs))
  /\ \E a \in 1..Len(unknown_in_assign), b \in 1..Len(unknown_in_assign) :
       /\ a < b /\ unknown_in_assign[a] = unknown_in_assign[b]
       /\ Str(unknown_in_assign[a]) # Base(unknown_in_assign[a])
  /\ \E k \in 1..Len(AllRefs) : Resolvable(AllRefs[k])

(* C7 as stated: an import field that is absent, not a list, or holds a    *)
(* non-string makes the run fail with the import schema message, and the   *)
(* start and assignment checks are never reached.                          *)
C7_ImportRequired ==
  (AllLoad /\ ~ImportIsStrList) =>
    /\ pc \notin {"task_names", "start", "assignments", "assign_loop", "print_ok"}
    /\ Exited => /\ exit_code = 1
                 /\ stderr = <<ErrLine(ImportText, <<>>)>>

(* C8: the base identifier of a reference is the part before its first     *)
(* hyphen, or the whole reference when it has none, for start keys and     *)
(* assignment references alike; the run treats a reference as resolved     *)
(* iff that prefix is in the task names.                                   *)
C8_FirstHyphenOnly ==
  /\ \A k \in 1..Len(StartDoc.items) :
       LET v == StartDoc.items[k]
       IN  /\ Base(v) = BaseIdentifier(Str(v))
           /\ ("-" \notin {Str(v)[m] : m \in 1..Len(Str(v))}) => Base(v) = Str(v)
  /\ \A k \in 1..Len(AllRefs) : Base(AllRefs[k]) = BaseIdentifier(Str(AllRefs[k]))
  /\ (exc # <<>> /\ exc[1].text = StartUnknownText) =>
       {unknown_in_start[k] : k \in 1..Len(unknown_in_start)} =
         {v \in {start_cfg.items[k] : k \in 1..Len(start_cfg.items)} :
            BaseIdentifier(Str(v)) \notin task_names}
  /\ pc \in {"assignments", "assign_loop", "print_ok"} =>
       \A k \in 1..Len(start_cfg.items) : BaseIdentifier(Str(start_cfg.items[k])) \in task_names
  /\ pc = "assign_loop" =>
       {unknown_in_assign[k] : k \in 1..Len(unknown_in_assign)} =
         {RefsUpTo(i - 1)[k] : k \in {m \in 1..Len(RefsUpTo(i - 1)) :
              BaseIdentifier(Str(RefsUpTo(i - 1)[m])) \notin task_names}}

C8_Witness ==
  /\ pc = "assign_loop" /\ i = 2
  /\ \E k \in 1..Len(start_cfg.items) :
       LET s == Str(start_cfg.items[k])
       IN  Cardinality({m \in 1..Len(s) : s[m] = "-"}) >= 2 /\ s[1] # "-"

(* C9 as stated: with three documents that load as mappings, the failure   *)
(* reported is that of the earliest failing step: the import check (the    *)
(* field must be present and a list of strings), then the start check,     *)
(* whose message carries no assignment reference, then the assignments.    *)
StartFails == ~StartIsNonEmptyMap \/ UnresolvedKeys # <<>>
C9_EarliestStepReported ==
  (AllLoad /\ Exited) =>
    IF ~ImportIsStrList THEN stderr = <<ErrLine(ImportText, <<>>)>>
    ELSE IF StartFails
      THEN /\ Len(stderr) = 1
           /\ stderr[1].text \in {StartSchemaText, StartUnknownText, SortErrorText}
           /\ stderr[1].detail \in {<<>>, Join(unknown_in_start)}
    ELSE \/ exit_code = 0
         \/ Len(stderr) = 1 /\ stderr[1].text \in {AssignSchemaText, NotMappingText,
                                                   TaskTypeText, AssignUnknownText}

(* C10 as stated: every assignment element the loop passes is a mapping    *)
(* whose task is a string or a list; an element without one, an absent     *)
(* task included, ends the run with the task schema error.                 *)
C10_TaskRequired ==
  /\ pc = "assign_loop" =>
       \A k \in 1..(i - 1) :
         AssignDoc.items[k].isdict /\ AssignDoc.items[k].task \in {"str", "list"}
  /\ exit_code = 0 => AssignmentsWellTyped

====
